---------------------------- MODULE Spec2Model ----------------------------
(***************************************************************************)
(* A model of src/src/pos/model.py: the Tagger and GRUDecoder decoder      *)
(* heads, the Encoder and the composite ABLTagger.                         *)
(*                                                                         *)
(* Tensors are sequences (1-based here, 0-based in the source: the         *)
(* source's index i is position i + 1).  Each component has a              *)
(* specification of its own: SpecTagger, SpecEncoder, SpecABL, SpecGRU,    *)
(* SpecLemma, SpecPack.                                                    *)
(***************************************************************************)
EXTENDS Integers, Sequences, FiniteSets, TLC

VARIABLES
    \* Tagger.postprocess
    tg_logits,      \* the logits tensor (batch, max_len, |vocab|)
    tg_lengths,     \* the lengths argument
    tg_vocab,       \* self.vocab_map of the decoder
    tg_result,      \* what the last call returned or raised
    tg_prev,        \* what the call before it returned or raised
    tg_calls        \* number of postprocess calls made

tgVars == <<tg_logits, tg_lengths, tg_vocab, tg_result, tg_prev, tg_calls>>

VARIABLES
    \* Encoder
    enc_args,       \* the constructor arguments: embeddings, main_lstm_dim, main_lstm_layers
    enc_status,     \* "args" before __init__, then "constructed" or the error raised
    enc_self,       \* the attributes __init__ set: use_bilstm, output_dim
    enc_in,         \* the (batch, lengths) of the last forward call
    enc_out         \* what the last forward call returned or raised

encVars == <<enc_args, enc_status, enc_self, enc_in, enc_out>>

VARIABLES
    \* ABLTagger.forward
    abl_decoders,   \* the decoders dictionary of the constructor, in insertion order
    abl_batch,      \* the batch dictionary
    abl_pc,         \* "idle", "decoding", "returned" or "raised"
    abl_encoded,    \* what the encoder returned in this call
    abl_enc_runs,   \* number of encoder runs in this call
    abl_next,       \* position of the next decoder to run
    abl_out,        \* the mapping built so far: name -> logits
    abl_writes,     \* the writes of this call: <<decoder, object, key>>
    abl_calls       \* number of forward calls started

ablVars == <<abl_decoders, abl_batch, abl_pc, abl_encoded, abl_enc_runs,
             abl_next, abl_out, abl_writes, abl_calls>>

VARIABLES
    \* GRUDecoder.forward
    gru_tf,         \* self.teacher_forcing, in units of 1 / TFScale
    gru_batch,      \* the batch dictionary
    gru_pc,         \* "idle", "decoding" or "returned"
    gru_context,    \* context, one vector per (sentence, token) position
    gru_hidden,     \* hidden, one vector per position
    gru_in,         \* the input of the last step: next_char_input and gru_in
    gru_predictions,\* predictions: None, or one vector per position per step
    gru_flips       \* number of random.random() calls in this forward

gruVars == <<gru_tf, gru_batch, gru_pc, gru_context, gru_hidden, gru_in,
             gru_predictions, gru_flips>>

VARIABLES
    \* GRUDecoder.postprocess
    lm_logits,      \* the logits tensor (batch * max_len, max_chars, |vocab|)
    lm_shape,       \* <<batch, max_len>> of the encoded tensor the logits come from
    lm_lengths,     \* the lengths argument
    lm_gold,        \* the gold lemmas the logits follow, when they follow some
    lm_result       \* what the call returned or raised

lmVars == <<lm_logits, lm_shape, lm_lengths, lm_gold, lm_result>>

VARIABLES
    \* pack_sequence, unpack_sequence
    pk_x,           \* padded_sequence (b, s, f)
    pk_real,        \* the number of real timesteps of each sequence of pk_x
    pk_pc,          \* "args", "packed", "unpacked" or "raised"
    pk_packed,      \* the PackedSequence pack_sequence returned
    pk_lengths,     \* the lengths pack_sequence returned
    pk_out          \* what unpack_sequence returned

pkVars == <<pk_x, pk_real, pk_pc, pk_packed, pk_lengths, pk_out>>

vars == <<tgVars, encVars, ablVars, gruVars, lmVars, pkVars>>

-----------------------------------------------------------------------------
(* Bounds of the model *)

MaxBatch == 2
MaxSeq == 2
MaxCalls == 2
MaxEmbs == 2
MaxEmbDim == 2
MaxLstmDim == 2
MaxLstmLayers == 1
MaxDecoders == 2
MaxPos == 2
MaxChars == 4
TFScale == 2

-----------------------------------------------------------------------------
(* Helpers *)

Range(s) == {s[i] : i \in 1..Len(s)}

MaxOf(S) == CHOOSE m \in S : \A x \in S : x <= m

NoValue == [status |-> "none"]

-----------------------------------------------------------------------------
(* VocabMap: the four reserved symbols, then the symbols of the vocabulary *)

PAD == "<pad>"
UNK == "<unk>"
SOS == "<s>"
EOS == "</s>"

PAD_ID == 0
UNK_ID == 1
SOS_ID == 2
EOS_ID == 3

Reserved == <<PAD, UNK, SOS, EOS>>

\* i2w of a VocabMap built from the symbol list syms
VocabOf(syms) == Reserved \o syms

\* vocab_map.i2w[idx]
I2W(vocab, idx) == vocab[idx + 1]

\* vocab_map.w2i[sym] with the UNK fallback of the preprocessing paths
W2I(vocab, sym) ==
    IF sym \in Range(vocab)
    THEN (CHOOSE i \in 1..Len(vocab) : vocab[i] = sym) - 1
    ELSE UNK_ID

TagVocab == VocabOf(<<"fn", "sfg3en", "no">>)

-----------------------------------------------------------------------------
(* torch.Tensor.argmax over the last axis: the index of the first maximal  *)
(* value of the row                                                        *)

ArgmaxLast(row) ==
    CHOOSE k \in 0..(Len(row) - 1) :
        /\ \A j \in 0..(Len(row) - 1) : row[j + 1] <= row[k + 1]
        /\ \A j \in (k + 1)..(Len(row) - 1) : row[j + 1] < row[k + 1]

Argmax(row) ==
    CHOOSE k \in 0..(Len(row) - 1) :
        /\ \A j \in 0..(Len(row) - 1) : row[j + 1] <= row[k + 1]
        /\ \A j \in 0..(k - 1) : row[j + 1] < row[k + 1]

OneHot(n, k) == [i \in 1..n |-> IF i = k + 1 THEN 1 ELSE 0]

-----------------------------------------------------------------------------
(* The components a specification leaves out stay idle *)

TaggerIdle ==
    /\ tg_logits = <<>>
    /\ tg_lengths = <<>>
    /\ tg_vocab = <<>>
    /\ tg_result = NoValue
    /\ tg_prev = NoValue
    /\ tg_calls = 0

EncoderIdle ==
    /\ enc_args = NoValue
    /\ enc_status = "idle"
    /\ enc_self = NoValue
    /\ enc_in = NoValue
    /\ enc_out = NoValue

ABLIdle ==
    /\ abl_decoders = <<>>
    /\ abl_batch = NoValue
    /\ abl_pc = "off"
    /\ abl_encoded = NoValue
    /\ abl_enc_runs = 0
    /\ abl_next = 0
    /\ abl_out = <<>>
    /\ abl_writes = {}
    /\ abl_calls = 0

GRUIdle ==
    /\ gru_tf = 0
    /\ gru_batch = NoValue
    /\ gru_pc = "off"
    /\ gru_context = <<>>
    /\ gru_hidden = <<>>
    /\ gru_in = NoValue
    /\ gru_predictions = NoValue
    /\ gru_flips = 0

LemmaIdle ==
    /\ lm_logits = <<>>
    /\ lm_shape = <<0, 0>>
    /\ lm_lengths = <<>>
    /\ lm_gold = NoValue
    /\ lm_result = NoValue

PackIdle ==
    /\ pk_x = <<>>
    /\ pk_real = <<>>
    /\ pk_pc = "off"
    /\ pk_packed = NoValue
    /\ pk_lengths = NoValue
    /\ pk_out = NoValue

-----------------------------------------------------------------------------
(* Tagger.postprocess *)

\* batch.argmax(dim=2).tolist()
ArgmaxIdxs(batch) ==
    [i \in 1..Len(batch) |-> [j \in 1..Len(batch[i]) |-> Argmax(batch[i][j])]]

\* the filter of the comprehension: token_count < lengths[sent_idx]
KeepTokenInclusive(token_count, sent_length) == token_count <= sent_length

KeepToken(token_count, sent_length) == token_count < sent_length

\* the inner generator: the tags of one sentence, in token order
RECURSIVE SentTags(_, _, _, _)
SentTags(vocab, sent, sent_length, token_count) ==
    IF token_count >= Len(sent) THEN <<>>
    ELSE (IF KeepToken(token_count, sent_length)
          THEN <<I2W(vocab, sent[token_count + 1])>>
          ELSE <<>>)
         \o SentTags(vocab, sent, sent_length, token_count + 1)

\* lengths[sent_idx] raises IndexError when a sentence that has tokens has
\* no entry in lengths
PostprocessRaises(batch, lengths) ==
    \E i \in 1..Len(batch) : Len(batch[i]) > 0 /\ i > Len(lengths)

TaggerPostprocessValue(vocab, batch, lengths) ==
    IF PostprocessRaises(batch, lengths)
    THEN [status |-> "IndexError"]
    ELSE [status |-> "returned",
          value  |-> [i \in 1..Len(batch) |->
                        SentTags(vocab, ArgmaxIdxs(batch)[i],
                                 IF Len(batch[i]) > 0 THEN lengths[i] ELSE 0, 0)]]

\* The rows the logits are drawn from: one clear maximum, and a tie
RowFn == OneHot(Len(TagVocab), 4)
RowTie == <<0, 0, 0, 0, 0, 1, 1>>
RowNo == OneHot(Len(TagVocab), 6)
TagRows == {RowFn, RowTie}

LogitTensors ==
    UNION {[1..b -> [1..s -> TagRows]] : b \in 1..MaxBatch, s \in 1..MaxSeq}

\* The scenario of the tests: shape (2, 3, 7), lengths [3, 1]
ScenarioLogits ==
    << <<RowFn, RowTie, RowNo>>, <<RowFn, RowNo, RowTie>> >>
ScenarioLengths == <<3, 1>>

BatchOf(t) == Len(t)
SeqLenOf(t) == Len(t[1])

\* lengths as the data pipeline guarantees them
ConsistentLengths(t) == [1..BatchOf(t) -> 0..SeqLenOf(t)]

\* lengths of a broken pipeline: too few, too many, or one beyond max_len
InconsistentLengths(t) ==
    UNION {{SubSeq(l, 1, Len(l) - 1),
            Append(l, SeqLenOf(t)),
            [l EXCEPT ![1] = SeqLenOf(t) + 1]} : l \in ConsistentLengths(t)}

Consistent(t, l) ==
    /\ Len(l) = BatchOf(t)
    /\ \A i \in 1..Len(l) : l[i] \in 0..SeqLenOf(t)

TaggerInit ==
    /\ \/ /\ tg_logits \in LogitTensors
          /\ tg_lengths \in ConsistentLengths(tg_logits)
                              \cup InconsistentLengths(tg_logits)
       \/ /\ tg_logits = ScenarioLogits
          /\ tg_lengths = ScenarioLengths
    /\ tg_vocab = TagVocab
    /\ tg_result = NoValue
    /\ tg_prev = NoValue
    /\ tg_calls = 0

\* batch, lengths and self.vocab_map when postprocess is over: it assigns
\* to none of them, idxs and tags are new lists
ArgumentsAfterConsumed(batch, lengths, vocab) ==
    [batch |-> batch, lengths |-> <<>>, vocab |-> vocab]

ArgumentsAfter(batch, lengths, vocab) ==
    [batch |-> batch, lengths |-> lengths, vocab |-> vocab]

TaggerPostprocess ==
    /\ tg_calls < MaxCalls
    /\ tg_result' = TaggerPostprocessValue(tg_vocab, tg_logits, tg_lengths)
    /\ tg_prev' = tg_result
    /\ tg_calls' = tg_calls + 1
    /\ tg_logits' = ArgumentsAfter(tg_logits, tg_lengths, tg_vocab).batch
    /\ tg_lengths' = ArgumentsAfter(tg_logits, tg_lengths, tg_vocab).lengths
    /\ tg_vocab' = ArgumentsAfter(tg_logits, tg_lengths, tg_vocab).vocab
    /\ UNCHANGED <<encVars, ablVars, gruVars, lmVars, pkVars>>

TaggerNext == TaggerPostprocess

InitTagger == TaggerInit /\ EncoderIdle /\ ABLIdle /\ GRUIdle /\ LemmaIdle /\ PackIdle

SpecTagger == InitTagger /\ [][TaggerNext]_vars

(* Claims about Tagger.postprocess *)

\* k (1-based) is the first position of row that holds its maximum
IsFirstMax(row, k) ==
    /\ \A j \in 1..Len(row) : row[j] <= row[k]
    /\ \A j \in 1..(k - 1) : row[j] < row[k]

\* the tag vocabulary's symbol at the arg-max of a row of logits
TagOfMax(row) == TagVocab[CHOOSE k \in 1..Len(row) : IsFirstMax(row, k)]

TaggerCalled == tg_calls > 0

\* C1: padding non-leakage.  With len(lengths) == batch and every
\* lengths[i] <= max_len, postprocess returns, and its output for sentence i
\* holds exactly lengths[i] tags, those of positions 0..lengths[i]-1.
C1_PaddingNonLeakage ==
    (TaggerCalled /\ Consistent(tg_logits, tg_lengths)) =>
        /\ tg_result.status = "returned"
        /\ \A i \in 1..Len(tg_logits) :
            /\ Len(tg_result.value[i]) = tg_lengths[i]
            /\ \A j \in 1..tg_lengths[i] :
                 tg_result.value[i][j] = TagOfMax(tg_logits[i][j])

\* C1's case: a batch whose sentences differ in length, so that one of them
\* is padded, has been postprocessed
C1_Witness ==
    /\ TaggerCalled
    /\ Consistent(tg_logits, tg_lengths)
    /\ tg_result.status = "returned"
    /\ \E i, k \in 1..Len(tg_lengths) :
          /\ 0 < tg_lengths[i]
          /\ tg_lengths[i] < tg_lengths[k]
          /\ tg_lengths[k] = SeqLenOf(tg_logits)

\* C2: whatever postprocess returns is one tag sequence per sentence, in
\* sentence order, whose j-th tag is i2w[arg-max of logits[i][j]]; on the
\* scenario of shape (2, 3, 7) with lengths [3, 1] it is
\* ((fn, sfg3en, no), (fn,)).
C2_OrderedArgmaxTags ==
    tg_result.status = "returned" =>
        /\ Len(tg_result.value) = Len(tg_logits)
        /\ \A i \in 1..Len(tg_logits) :
             /\ Len(tg_result.value[i]) <= Len(tg_logits[i])
             /\ \A j \in 1..Len(tg_result.value[i]) :
                  tg_result.value[i][j] = TagOfMax(tg_logits[i][j])
        /\ (tg_logits = ScenarioLogits /\ tg_lengths = ScenarioLengths) =>
             tg_result.value = << <<"fn", "sfg3en", "no">>, <<"fn">> >>

\* C2's case: the scenario has been postprocessed
C2_Witness ==
    /\ tg_logits = ScenarioLogits
    /\ tg_lengths = ScenarioLengths
    /\ tg_result.status = "returned"
    /\ Len(tg_result.value[1]) = 3

-----------------------------------------------------------------------------
(* Encoder *)

\* The keys of the embeddings dictionary, in insertion order
EmbNames == <<"trained", "chars", "bert", "morphlex", "pretrained">>

Embeddings(n) ==
    {es \in [1..n -> [name : Range(EmbNames), output_dim : 1..MaxEmbDim,
                      to_bilstm : BOOLEAN]] :
        \A k \in 1..n : es[k].name = EmbNames[k]}

EncoderArgs ==
    [embeddings : UNION {Embeddings(n) : n \in 0..MaxEmbs},
     main_lstm_dim : 0..MaxLstmDim,
     main_lstm_layers : 0..MaxLstmLayers]

\* sum(emb.output_dim for emb in self.embeddings.values() if emb.to_bilstm == routed)
RECURSIVE SumDims(_, _)
SumDims(embs, routed) ==
    IF embs = <<>> THEN 0
    ELSE (IF Head(embs).to_bilstm = routed THEN Head(embs).output_dim ELSE 0)
         + SumDims(Tail(embs), routed)

\* self.use_bilstm = not main_lstm_layers == 0
UseBilstm(args) == ~(args.main_lstm_layers = 0)

\* if bilstm_in_dim and not self.use_bilstm: raise ValueError
ConfigCheckSkipped(bilstm_in_dim, use_bilstm) == FALSE

ConfigInvalid(bilstm_in_dim, use_bilstm) == bilstm_in_dim # 0 /\ ~use_bilstm

\* encoder_out_dim, with main_lstm_dim * 2 added when self.use_bilstm
EncoderOutDim(args) ==
    SumDims(args.embeddings, FALSE)
      + (IF UseBilstm(args) THEN args.main_lstm_dim * 2 ELSE 0)

\* nn.LSTM(hidden_size=0) and the initialisation of its empty parameters:
\* accepted by some torch releases, refused by others with an error of the
\* library (the Encoder itself does not look at main_lstm_dim)
LstmOutcomes(args) ==
    IF args.main_lstm_dim > 0 THEN {"constructed"}
    ELSE {"constructed", "LibraryError"}

EncoderInit ==
    /\ enc_args \in EncoderArgs
    /\ enc_status = "args"
    /\ enc_self = NoValue
    /\ enc_in = NoValue
    /\ enc_out = NoValue

\* Encoder.__init__
EncoderConstruct ==
    /\ enc_status = "args"
    /\ IF ConfigInvalid(SumDims(enc_args.embeddings, TRUE), UseBilstm(enc_args))
       THEN /\ enc_status' = "ValueError"
            /\ enc_self' = NoValue
       ELSE \E outcome \in (IF UseBilstm(enc_args) THEN LstmOutcomes(enc_args)
                                                    ELSE {"constructed"}) :
            /\ enc_status' = outcome
            /\ enc_self' = IF outcome = "constructed"
                            THEN [status |-> "set",
                                  use_bilstm |-> UseBilstm(enc_args),
                                  output_dim |-> EncoderOutDim(enc_args)]
                            ELSE NoValue
    /\ UNCHANGED <<enc_args, enc_in, enc_out>>
    /\ UNCHANGED <<tgVars, ablVars, gruVars, lmVars, pkVars>>

\* The feature columns of one embedding's output
EmbFeats(emb) == [k \in 1..emb.output_dim |-> <<emb.name, k>>]

\* torch.cat(..., dim=2) of the outputs of the embeddings with to_bilstm == routed
RECURSIVE CatEmbs(_, _)
CatEmbs(embs, routed) ==
    IF embs = <<>> THEN <<>>
    ELSE (IF Head(embs).to_bilstm = routed THEN EmbFeats(Head(embs)) ELSE <<>>)
         \o CatEmbs(Tail(embs), routed)

HasEmb(embs, routed) == \E k \in 1..Len(embs) : embs[k].to_bilstm = routed

\* the BiLSTM's output columns: forward and backward hidden states
BilstmFeats(args) == [k \in 1..(args.main_lstm_dim * 2) |-> <<"bilstm", k>>]

Tensor(b, s, feats) ==
    [kind |-> "tensor", shape |-> <<b, s, Len(feats)>>, feats |-> feats]

None == [kind |-> "None"]

Returned(v, fed) == [status |-> "returned", value |-> v, bilstm_ran |-> fed]

\* `if embs:` on a tensor: the truth value of a tensor of more than one
\* element is a RuntimeError, that of a one element tensor is whether the
\* element is non zero
NumEl(t) == t.shape[1] * t.shape[2] * t.shape[3]

\* Encoder.forward on a batch of b sentences with the given lengths; nonzero
\* tells whether the single element of a one element embs is non zero
EncoderForwardValue(args, self, b, lengths, nonzero) ==
    LET s == MaxOf(Range(lengths))
        embs_to_bilstm == IF HasEmb(args.embeddings, TRUE)
                          THEN Tensor(b, s, CatEmbs(args.embeddings, TRUE))
                          ELSE None
        embs == IF HasEmb(args.embeddings, FALSE)
                THEN Tensor(b, s, CatEmbs(args.embeddings, FALSE))
                ELSE None
        bilstm_out == Tensor(b, s, BilstmFeats(args))
    IN  IF self.use_bilstm /\ embs_to_bilstm # None
        THEN IF embs = None
             THEN Returned(bilstm_out, TRUE)
             ELSE IF NumEl(embs) > 1
                  THEN [status |-> "RuntimeError"]
                  ELSE IF nonzero
                       THEN Returned(Tensor(b, s, embs.feats \o bilstm_out.feats), TRUE)
                       ELSE Returned(bilstm_out, TRUE)
        ELSE Returned(embs, FALSE)

SentenceLengths == UNION {[1..b -> 1..MaxSeq] : b \in 1..MaxBatch}

EncoderForward ==
    /\ enc_status = "constructed"
    /\ \E lengths \in SentenceLengths, nonzero \in BOOLEAN :
        /\ enc_in' = [batch |-> Len(lengths), lengths |-> lengths]
        /\ enc_out' = EncoderForwardValue(enc_args, enc_self, Len(lengths),
                                          lengths, nonzero)
    /\ UNCHANGED <<enc_args, enc_status, enc_self>>
    /\ UNCHANGED <<tgVars, ablVars, gruVars, lmVars, pkVars>>

EncoderNext == EncoderConstruct \/ EncoderForward

InitEncoder == EncoderInit /\ TaggerIdle /\ ABLIdle /\ GRUIdle /\ LemmaIdle /\ PackIdle

SpecEncoder == InitEncoder /\ [][EncoderNext]_vars

(* Claims about the Encoder *)

EncoderInitRan == enc_status \in {"constructed", "ValueError", "LibraryError"}

RoutedRequested == HasEmb(enc_args.embeddings, TRUE)

\* C3 as stated: when an embedding requests routing to the recurrent layer
\* and the recurrent layer is not configured with hidden dim > 0 and layer
\* count > 0, construction fails with the configuration error.
C3_Original ==
    (/\ EncoderInitRan
     /\ RoutedRequested
     /\ ~(enc_args.main_lstm_dim > 0 /\ enc_args.main_lstm_layers > 0))
        => enc_status = "ValueError"

\* C3 as amended: the Encoder's configuration error is raised exactly when
\* the dims of the embeddings routed to the recurrent layer sum to non zero
\* and main_lstm_layers is 0 (main_lstm_dim is not looked at), and no
\* forward pass has run on an Encoder whose construction failed.
C3_ConfigErrorIffNoLayers ==
    /\ EncoderInitRan =>
         (enc_status = "ValueError"
            <=> (/\ SumDims(enc_args.embeddings, TRUE) # 0
                 /\ enc_args.main_lstm_layers = 0))
    /\ enc_status \in {"ValueError", "LibraryError"} =>
         (enc_self = NoValue /\ enc_in = NoValue /\ enc_out = NoValue)

\* C3's case: construction with a routed embedding and no recurrent layer
\* has raised
C3_Witness ==
    /\ enc_status = "ValueError"
    /\ RoutedRequested
    /\ enc_args.main_lstm_layers = 0

ForwardReturned == enc_out.status = "returned"

SomeEmbedding == enc_args.embeddings # <<>>

\* C4: whenever forward returns on a constructed Encoder that has
\* embeddings, it returns a tensor of shape (len(B), max(L), output_dim).
C4_OutputShape ==
    (ForwardReturned /\ SomeEmbedding) =>
        /\ enc_out.value.kind = "tensor"
        /\ enc_out.value.shape =
             <<enc_in.batch, MaxOf(Range(enc_in.lengths)), enc_self.output_dim>>

\* C5: output_dim is the sum of the dims of the embeddings not routed to the
\* recurrent layer, plus 2 x the recurrent hidden dim exactly when the
\* output of some embedding is fed through the recurrent layer.
C5_OutputDim ==
    (ForwardReturned /\ SomeEmbedding) =>
        enc_self.output_dim =
            SumDims(enc_args.embeddings, FALSE)
              + (IF enc_out.bilstm_ran THEN 2 * enc_args.main_lstm_dim ELSE 0)

-----------------------------------------------------------------------------
(* ABLTagger *)

\* class Modules(Enum): <<member, value>>
ModulesEnum ==
    { <<"Pretrained", "pretrained">>, <<"Trained", "trained">>,
      <<"MorphLex", "morphlex">>, <<"CharactersToTokens", "chars">>,
      <<"BiLSTM", "bilstm">>, <<"BERT", "bert">>, <<"Tagger", "tagger">>,
      <<"Lemmatizer", "lemmatizer">> }

\* key.value
ModuleValue(member) == (CHOOSE m \in ModulesEnum : m[1] = member)[2]

\* Modules(key): the member whose value is key
ModuleOfUnconverted(value) == value

ModuleOf(value) == (CHOOSE m \in ModulesEnum : m[2] = value)[1]

\* The decoders dictionaries: distinct keys, each with a Tagger or a GRUDecoder
DecoderKeys == {"Tagger", "Lemmatizer", "Trained"}
DecoderKinds == {"Tagger", "GRUDecoder"}

DecoderDicts ==
    UNION {{ds \in [1..n -> [key : DecoderKeys, kind : DecoderKinds]] :
              \A i, j \in 1..n : ds[i].key = ds[j].key => i = j}
           : n \in 0..MaxDecoders}

\* self.decoders = nn.ModuleDict({key.value: emb for key, emb in decoders.items()})
ModuleDict(decoders) ==
    [i \in 1..Len(decoders) |->
        [name |-> ModuleValue(decoders[i].key), kind |-> decoders[i].kind]]

\* A batch dictionary as the data pipeline builds it: TOKENS and LENGTHS,
\* and the gold FULL_TAGS and LEMMAS when there are any.  The value of
\* LEMMAS is abstracted to the length of its longest lemma.
GoldLemmaLens == {0, 1}

BaseBatch == [k \in {"TOKENS", "LENGTHS"} |-> <<k>>]

Put(dict, key, value) ==
    [k \in DOMAIN dict \cup {key} |-> IF k = key THEN value ELSE dict[k]]

BatchDicts ==
    {BaseBatch, Put(BaseBatch, "FULL_TAGS", <<"FULL_TAGS">>)}
    \cup {Put(BaseBatch, "LEMMAS", <<"LEMMAS", n>>) : n \in GoldLemmaLens}
    \cup {Put(Put(BaseBatch, "FULL_TAGS", <<"FULL_TAGS">>), "LEMMAS", <<"LEMMAS", n>>)
            : n \in GoldLemmaLens}

\* The gold key a decoder reads and the target key it sets in add_targets
GoldKey(kind) == IF kind = "Tagger" THEN "FULL_TAGS" ELSE "LEMMAS"

AddTargetsKeySwapped(kind) ==
    IF kind = "Tagger" THEN "TARGET_LEMMAS" ELSE "TARGET_FULL_TAGS"

AddTargetsKey(kind) ==
    IF kind = "Tagger" THEN "TARGET_FULL_TAGS" ELSE "TARGET_LEMMAS"

\* Tagger.add_targets / GRUDecoder.add_targets: the batch after the call.
\* The target is the gold value mapped to indices with this decoder's
\* vocabulary; a lemma gets an EOS appended (add_sos=False).
TargetValue(d, batch) ==
    IF d.kind = "Tagger"
    THEN <<"TARGET_FULL_TAGS", d.name>>
    ELSE <<"TARGET_LEMMAS", d.name, batch["LEMMAS"][2] + 1>>

AddTargetsMoved(d, batch) ==
    IF GoldKey(d.kind) \in DOMAIN batch
    THEN [k \in (DOMAIN batch \ {GoldKey(d.kind)}) \cup {AddTargetsKey(d.kind)} |->
            IF k = AddTargetsKey(d.kind) THEN TargetValue(d, batch) ELSE batch[k]]
    ELSE batch

AddTargets(d, batch) ==
    IF GoldKey(d.kind) \in DOMAIN batch
    THEN Put(batch, AddTargetsKey(d.kind), TargetValue(d, batch))
    ELSE batch

\* What the encoder call of a forward pass can do: return a tensor whose
\* feature dim is the declared output_dim ("ok") or another one ("baddim"),
\* return None, or raise
EncoderOutcomes == {"ok", "baddim", "None", "raised"}

\* decode of one decoder on the encoded tensor and the batch after its
\* add_targets: the logits, None, or an error
DecodeValue(d, encoded, batch) ==
    IF d.kind = "Tagger"
    THEN IF encoded.kind = "ok"
         THEN [status |-> "returned",
               value |-> [kind |-> "tag_logits", by |-> d.name,
                          encoded |-> encoded.id]]
         ELSE [status |-> "raised"]
    ELSE IF encoded.kind = "None"
         THEN [status |-> "raised"]
         ELSE IF "TARGET_LEMMAS" \in DOMAIN batch
              THEN IF encoded.kind = "ok"
                   THEN [status |-> "returned",
                         value |-> [kind |-> "char_logits", by |-> d.name,
                                    encoded |-> encoded.id,
                                    steps |-> batch["TARGET_LEMMAS"][3]]]
                   ELSE [status |-> "raised"]
              ELSE [status |-> "returned", value |-> None]

\* The objects a decoder writes in its forward: the batch dictionary in
\* add_targets, and the state of the random module, advanced by the
\* teacher forcing coin of every generation step after the first
DecoderWrites(d, encoded, batch) ==
    (IF GoldKey(d.kind) \in DOMAIN batch
     THEN {<<d.name, "batch", AddTargetsKey(d.kind)>>} ELSE {})
    \cup
    (IF /\ d.kind = "GRUDecoder"
        /\ encoded.kind = "ok"
        /\ "TARGET_LEMMAS" \in DOMAIN AddTargets(d, batch)
        /\ AddTargets(d, batch)["TARGET_LEMMAS"][3] > 1
     THEN {<<d.name, "random", "state">>} ELSE {})

\* The objects the forward of a decoder can reach: its arguments, the
\* process-wide random module, and the decoder itself
Reach(d) == {"encoded", "batch", "random", <<"self", d.name>>}

ABLInit ==
    /\ abl_decoders \in DecoderDicts
    /\ abl_batch \in BatchDicts
    /\ abl_pc = "idle"
    /\ abl_encoded = NoValue
    /\ abl_enc_runs = 0
    /\ abl_next = 0
    /\ abl_out = <<>>
    /\ abl_writes = {}
    /\ abl_calls = 0

\* ABLTagger.forward, the encoder call
ABLForwardEncode ==
    /\ abl_pc \in {"idle", "returned", "raised"}
    /\ abl_calls < MaxCalls
    /\ abl_calls' = abl_calls + 1
    /\ abl_enc_runs' = 1
    /\ abl_out' = <<>>
    /\ abl_writes' = {}
    /\ \E outcome \in EncoderOutcomes :
         IF outcome = "raised"
         THEN /\ abl_pc' = "raised"
              /\ abl_encoded' = NoValue
              /\ abl_next' = 0
         ELSE /\ abl_pc' = "decoding"
              /\ abl_encoded' = [kind |-> outcome, id |-> abl_calls + 1]
              /\ abl_next' = 1
    /\ UNCHANGED <<abl_decoders, abl_batch>>
    /\ UNCHANGED <<tgVars, encVars, gruVars, lmVars, pkVars>>

\* ABLTagger.forward, one entry of the comprehension: decoder(encoded, batch)
ABLForwardDecoder ==
    /\ abl_pc = "decoding"
    /\ abl_next <= Len(abl_decoders)
    /\ LET d == ModuleDict(abl_decoders)[abl_next]
           batch == AddTargets(d, abl_batch)
           res == DecodeValue(d, abl_encoded, batch)
       IN  /\ abl_batch' = batch
           /\ abl_writes' = abl_writes \cup DecoderWrites(d, abl_encoded, abl_batch)
           /\ IF res.status = "raised"
              THEN /\ abl_pc' = "raised"
                   /\ abl_out' = <<>>
                   /\ abl_next' = 0
              ELSE /\ abl_pc' = "decoding"
                   /\ abl_out' = Put(abl_out, ModuleOf(d.name), res.value)
                   /\ abl_next' = abl_next + 1
    /\ UNCHANGED <<abl_decoders, abl_encoded, abl_enc_runs, abl_calls>>
    /\ UNCHANGED <<tgVars, encVars, gruVars, lmVars, pkVars>>

\* ABLTagger.forward, the return of the mapping
ABLForwardReturn ==
    /\ abl_pc = "decoding"
    /\ abl_next > Len(abl_decoders)
    /\ abl_pc' = "returned"
    /\ UNCHANGED <<abl_decoders, abl_batch, abl_encoded, abl_enc_runs,
                   abl_next, abl_out, abl_writes, abl_calls>>
    /\ UNCHANGED <<tgVars, encVars, gruVars, lmVars, pkVars>>

ABLNext == ABLForwardEncode \/ ABLForwardDecoder \/ ABLForwardReturn

InitABL == ABLInit /\ TaggerIdle /\ EncoderIdle /\ GRUIdle /\ LemmaIdle /\ PackIdle

SpecABL == InitABL /\ [][ABLNext]_vars

(* Claims about ABLTagger.forward *)

DecoderNames == {abl_decoders[i].key : i \in 1..Len(abl_decoders)}

KindOfKey(key) ==
    abl_decoders[CHOOSE i \in 1..Len(abl_decoders) : abl_decoders[i].key = key].kind

\* C6: a forward call runs the encoder once, whatever the number of
\* decoders, and what it returns maps exactly the decoder names given at
\* construction (nothing for no decoder), each to what that decoder made of
\* the one encoded tensor of this call.
C6_EncodeOnceAllDecoders ==
    /\ abl_pc \in {"decoding", "returned"} => abl_enc_runs = 1
    /\ abl_pc = "returned" =>
         /\ DOMAIN abl_out = DecoderNames
         /\ \A key \in DecoderNames :
              \/ /\ abl_out[key] = None
                 /\ KindOfKey(key) = "GRUDecoder"
                 /\ "TARGET_LEMMAS" \notin DOMAIN abl_batch
              \/ /\ abl_out[key] # None
                 /\ abl_out[key].encoded = abl_encoded.id
                 /\ abl_encoded.id = abl_calls
                 /\ abl_out[key].kind = IF KindOfKey(key) = "Tagger"
                                         THEN "tag_logits" ELSE "char_logits"

\* C6's case: a forward call with two decoders has returned both logits
C6_Witness ==
    /\ abl_pc = "returned"
    /\ Len(abl_decoders) = 2
    /\ \A key \in DecoderNames : abl_out[key] # None
    /\ \E key \in DecoderNames : abl_out[key].kind = "char_logits"

KindOfName(name) ==
    (CHOOSE d \in Range(ModuleDict(abl_decoders)) : d.name = name).kind

OtherDecoders(name) ==
    {d \in Range(ModuleDict(abl_decoders)) : d.name # name}

-----------------------------------------------------------------------------
(* GRUDecoder: add_targets, decode *)

CharVocab == VocabOf(<<"a", "b">>)

\* map_to_chars_and_index: the indices of the characters of one word, with
\* SOS in front and EOS behind when asked for
CharsOf(vocab, word, add_sos, add_eos) ==
    (IF add_sos THEN <<SOS_ID>> ELSE <<>>)
    \o [i \in 1..Len(word) |-> W2I(vocab, word[i])]
    \o (IF add_eos THEN <<EOS_ID>> ELSE <<>>)

\* map_to_chars_and_index over one sentence: one row per token
SentenceChars(vocab, sentence, add_sos, add_eos) ==
    [j \in 1..Len(sentence) |-> CharsOf(vocab, sentence[j], add_sos, add_eos)]

\* row r (counted from 1) of a batch of max_words rows per sentence is
\* token TokOfRow of sentence SentOfRow
SentOfRow(r, max_words) == ((r - 1) \div max_words) + 1

TokOfRow(r, max_words) == ((r - 1) % max_words) + 1

\* map_to_chars_batch: the sentences' rows, every sentence filled up to
\* the longest sentence and every row to the longest row with PAD, laid
\* one sentence after the other: (b * max_words, max_chars)
MapToCharsBatch(sentences, vocab, add_sos, add_eos) ==
    LET sents == [i \in 1..Len(sentences) |->
                    SentenceChars(vocab, sentences[i], add_sos, add_eos)]
        max_words == MaxOf({Len(sents[i]) : i \in 1..Len(sents)})
        max_chars == MaxOf(UNION {{Len(sents[i][j]) : j \in 1..Len(sents[i])} :
                                    i \in 1..Len(sents)})
    IN  [r \in 1..(Len(sents) * max_words) |->
            LET i == SentOfRow(r, max_words)
                j == TokOfRow(r, max_words)
            IN  [c \in 1..max_chars |->
                    IF j <= Len(sents[i]) /\ c <= Len(sents[i][j])
                    THEN sents[i][j][c] ELSE PAD_ID]]

\* the flags map_to_chars_batch takes when the caller names none
DefaultAddSos == TRUE
DefaultAddEos == TRUE

\* The (token, gold lemma) pairs the positions of a batch are drawn from
Words ==
    { [token |-> <<"b", "a">>, lemma |-> <<"b", "a">>],
      [token |-> <<"a", "b">>, lemma |-> <<"a">>] }

\* a sentence: its (token, gold lemma) pairs
WordSeqs == UNION {[1..n -> Words] : n \in 1..MaxPos}

\* the batches: one sentence, or two sentences of any lengths
SentenceBatches == {<<s>> : s \in WordSeqs} \cup (WordSeqs \X WordSeqs)

GRUBatch(ss, gold) ==
    LET base == [k \in {"TOKENS"} |->
                    [i \in 1..Len(ss) |-> [j \in 1..Len(ss[i]) |-> ss[i][j].token]]]
    IN  IF gold
        THEN Put(base, "LEMMAS",
                 [i \in 1..Len(ss) |-> [j \in 1..Len(ss[i]) |-> ss[i][j].lemma]])
        ELSE base

\* encoded is (b, max_len, f): b * max_len (sentence, token) positions
NumRows(batch) ==
    Len(batch["TOKENS"])
      * MaxOf({Len(batch["TOKENS"][i]) : i \in 1..Len(batch["TOKENS"])})

\* GRUDecoder.add_targets
GRUAddTargetsSkipped(batch) == batch

GRUAddTargets(batch) ==
    IF "LEMMAS" \in DOMAIN batch
    THEN Put(batch, "TARGET_LEMMAS",
             MapToCharsBatch(batch["LEMMAS"], CharVocab, FALSE, DefaultAddEos))
    ELSE batch

\* batch[BATCH_KEYS.TARGET_LEMMAS].shape[1], the bound of the loop
DecodeStepsShort(batch) == Len(batch["TARGET_LEMMAS"][1]) - 1

DecodeSteps(batch) == Len(batch["TARGET_LEMMAS"][1])

\* random.random() < teacher_forcing, both in units of 1 / TFScale:
\* random.random() is in [0, 1)
Coins == 0..(TFScale - 1)
TeacherForcings == 0..TFScale

TeacherForcedInclusive(batch, coin, teacher_forcing) ==
    "TARGET_LEMMAS" \in DOMAIN batch /\ coin <= teacher_forcing

TeacherForced(batch, coin, teacher_forcing) ==
    "TARGET_LEMMAS" \in DOMAIN batch /\ coin < teacher_forcing

\* previous_predictions.shape[1] - 1
PreviousTimestep(predictions) == Len(predictions) - 1

\* batch[BATCH_KEYS.TARGET_LEMMAS][:, previous_timestep]
GoldInputCurrent(target, previous_timestep) ==
    [p \in 1..Len(target) |-> target[p][previous_timestep + 2]]

GoldInput(target, previous_timestep) ==
    [p \in 1..Len(target) |-> target[p][previous_timestep + 1]]

\* previous_predictions[:, previous_timestep, :].argmax(dim=1)
OwnInput(predictions, previous_timestep) ==
    [p \in 1..Len(predictions[previous_timestep + 1]) |->
        Argmax(predictions[previous_timestep + 1][p])]

\* map_to_chars_batch(batch[BATCH_KEYS.TOKENS], vocab_map.w2i)[:, 0]
FirstInputSecondColumn(vocab, batch) ==
    LET chars == MapToCharsBatch(batch["TOKENS"], vocab, DefaultAddSos, DefaultAddEos)
    IN  [p \in 1..Len(chars) |-> chars[p][2]]

FirstInput(vocab, batch) ==
    LET chars == MapToCharsBatch(batch["TOKENS"], vocab, DefaultAddSos, DefaultAddEos)
    IN  [p \in 1..Len(chars) |-> chars[p][1]]

\* GRUDecoder._get_char_input_next_timestep; predictions is the sequence of
\* the steps made so far (<<>> for None), coin the value random.random()
\* returns if it is called
GetCharInputNextTimestepMixed(vocab, batch, predictions, teacher_forcing, coin) ==
    IF predictions = <<>>
    THEN [source |-> "first", chars |-> FirstInput(vocab, batch)]
    ELSE IF TeacherForced(batch, coin, teacher_forcing)
         THEN [source |-> "gold",
               chars |-> [p \in 1..Len(batch["TARGET_LEMMAS"]) |->
                            IF p = 1
                            THEN GoldInput(batch["TARGET_LEMMAS"],
                                           PreviousTimestep(predictions))[p]
                            ELSE OwnInput(predictions,
                                          PreviousTimestep(predictions))[p]]]
         ELSE [source |-> "own",
               chars |-> OwnInput(predictions, PreviousTimestep(predictions))]

GetCharInputNextTimestep(vocab, batch, predictions, teacher_forcing, coin) ==
    IF predictions = <<>>
    THEN [source |-> "first", chars |-> FirstInput(vocab, batch)]
    ELSE IF TeacherForced(batch, coin, teacher_forcing)
         THEN [source |-> "gold",
               chars |-> GoldInput(batch["TARGET_LEMMAS"],
                                   PreviousTimestep(predictions))]
         ELSE [source |-> "own",
               chars |-> OwnInput(predictions, PreviousTimestep(predictions))]

\* The character whose logit the network makes maximal at one position in
\* one step: the weights are not modelled, any of these can come out
PredPeaks == {EOS_ID, 4}

\* the same character at every position, or the two in turn
PeakPatterns(n) ==
    {[p \in 1..n |-> k] : k \in PredPeaks}
      \cup {[p \in 1..n |-> IF p % 2 = 1 THEN 4 ELSE EOS_ID]}

StepLogits(n) ==
    {[p \in 1..n |-> OneHot(Len(CharVocab), peak[p])] : peak \in PeakPatterns(n)}

\* encoded.reshape(shape=(-1, encoded.shape[2])): one context vector per position
ContextOf(n) == [p \in 1..n |-> <<"context", p>>]

\* torch.cat((emb_chars, context), dim=1)
GruInHidden(chars, context) ==
    [p \in 1..Len(chars) |-> <<<<"emb", chars[p]>>, <<"hidden", p>>>>]

GruIn(chars, context) ==
    [p \in 1..Len(chars) |-> <<<<"emb", chars[p]>>, context[p]>>]

GRUInit ==
    /\ gru_tf \in TeacherForcings
    /\ \E ss \in SentenceBatches, gold \in BOOLEAN : gru_batch = GRUBatch(ss, gold)
    /\ gru_pc = "idle"
    /\ gru_context = <<>>
    /\ gru_hidden = <<>>
    /\ gru_in = NoValue
    /\ gru_predictions = NoValue
    /\ gru_flips = 0

\* Decoder.forward: add_targets, then the head of decode; with no
\* TARGET_LEMMAS in the batch decode returns predictions as it is, None
GRUForwardStart ==
    /\ gru_pc = "idle"
    /\ LET batch == GRUAddTargets(gru_batch)
           n == NumRows(batch)
       IN  /\ gru_batch' = batch
           /\ gru_context' = ContextOf(n)
           /\ gru_hidden' = [p \in 1..n |-> [init |-> ContextOf(n)[p], steps |-> 0]]
           /\ gru_pc' = IF "TARGET_LEMMAS" \in DOMAIN batch
                         THEN "decoding" ELSE "returned"
    /\ gru_predictions' = None
    /\ gru_in' = NoValue
    /\ gru_flips' = 0
    /\ UNCHANGED gru_tf
    /\ UNCHANGED <<tgVars, encVars, ablVars, lmVars, pkVars>>

\* predictions: None before the first step, then the steps concatenated
Predictions(steps) == [kind |-> "tensor", steps |-> steps]

StepsMade == IF gru_predictions.kind = "tensor" THEN gru_predictions.steps ELSE <<>>

\* One iteration of the loop of decode
GRUDecodeStep ==
    /\ gru_pc = "decoding"
    /\ Len(StepsMade) < DecodeSteps(gru_batch)
    /\ \E coin \in Coins, prediction \in StepLogits(Len(gru_context)) :
        LET flipped == StepsMade # <<>>
            next == GetCharInputNextTimestep(CharVocab, gru_batch, StepsMade,
                                             gru_tf, coin)
        IN  /\ (~flipped) => coin = 0
            /\ gru_in' = [step |-> Len(StepsMade),
                           source |-> next.source,
                           chars |-> next.chars,
                           coin |-> IF flipped THEN coin ELSE -1,
                           rnn_in |-> GruIn(next.chars, gru_context)]
            /\ gru_flips' = gru_flips + (IF flipped THEN 1 ELSE 0)
            /\ gru_hidden' = [p \in 1..Len(gru_hidden) |->
                                [gru_hidden[p] EXCEPT !.steps = @ + 1]]
            /\ gru_predictions' = Predictions(Append(StepsMade, prediction))
    /\ UNCHANGED <<gru_tf, gru_batch, gru_pc, gru_context>>
    /\ UNCHANGED <<tgVars, encVars, ablVars, lmVars, pkVars>>

\* The end of the loop: decode returns predictions
GRUDecodeReturn ==
    /\ gru_pc = "decoding"
    /\ Len(StepsMade) >= DecodeSteps(gru_batch)
    /\ gru_pc' = "returned"
    /\ UNCHANGED <<gru_tf, gru_batch, gru_context, gru_hidden, gru_in,
                   gru_predictions, gru_flips>>
    /\ UNCHANGED <<tgVars, encVars, ablVars, lmVars, pkVars>>

GRUNext == GRUForwardStart \/ GRUDecodeStep \/ GRUDecodeReturn

InitGRU == GRUInit /\ TaggerIdle /\ EncoderIdle /\ ABLIdle /\ LemmaIdle /\ PackIdle

SpecGRU == InitGRU /\ [][GRUNext]_vars

(* Claims about GRUDecoder.decode *)

GoldAvailable == "TARGET_LEMMAS" \in DOMAIN gru_batch

\* the second dimension of TARGET_LEMMAS
TargetLen == Len(gru_batch["TARGET_LEMMAS"][1])

NumPos == NumRows(gru_batch)

\* C8: with gold lemmas, decode makes exactly T steps, T the second
\* dimension of TARGET_LEMMAS, never more on the way, and what it returns
\* holds T steps, each with one character-logit vector for every position.
C8_ExactlyTSteps ==
    /\ (gru_pc = "decoding" /\ gru_in # NoValue) =>
         /\ gru_in.step < TargetLen
         /\ Len(StepsMade) = gru_in.step + 1
    /\ (gru_pc = "returned" /\ GoldAvailable) =>
         /\ gru_predictions.kind = "tensor"
         /\ Len(gru_predictions.steps) = TargetLen
         /\ gru_in.step = TargetLen - 1
         /\ \A t \in 1..TargetLen :
              /\ DOMAIN gru_predictions.steps[t] = 1..NumPos
              /\ \A p \in 1..NumPos :
                   Len(gru_predictions.steps[t][p]) = Len(CharVocab)

\* C8's case: decoding a batch with a gold lemma of two characters has
\* returned after three steps
C8_Witness ==
    /\ gru_pc = "returned"
    /\ GoldAvailable
    /\ TargetLen = 3
    /\ Len(gru_predictions.steps) = 3
    /\ NumPos = 2

\* a step t > 0 at which teacher forcing was applied
ForcedStep ==
    /\ gru_in # NoValue
    /\ gru_in.step > 0
    /\ GoldAvailable
    /\ gru_in.coin < gru_tf

\* column c (counted from 0) of TARGET_LEMMAS
TargetColumn(c) == [p \in 1..NumPos |-> gru_batch["TARGET_LEMMAS"][p][c + 1]]

\* C9 as stated: at a step t > 0 with teacher forcing applied, the input
\* character is the target character at position t.
C9_Original == ForcedStep => gru_in.chars = TargetColumn(gru_in.step)

\* C9 as amended: at a step t > 0 with teacher forcing applied, the input
\* character is the target character at position t - 1, the gold
\* character of the step before.
C9_GoldOfPreviousStep == ForcedStep => gru_in.chars = TargetColumn(gru_in.step - 1)

\* C9's case: teacher forcing was applied at step 1 of a batch whose
\* targets differ between positions 0 and 1
C9_Witness ==
    /\ ForcedStep
    /\ gru_in.step = 1
    /\ TargetColumn(0) # TargetColumn(1)
    /\ gru_tf < TFScale

\* the arg-max of the logits the model made at step t (counted from 0)
OwnPrediction(t) ==
    [p \in 1..NumPos |->
        (CHOOSE k \in 1..Len(CharVocab) :
            IsFirstMax(gru_predictions.steps[t + 1][p], k)) - 1]

LaterStep == gru_pc \in {"decoding", "returned"} /\ gru_in # NoValue /\ gru_in.step > 0

\* C10: at every step t > 0 the input is a column of the gold targets or
\* the arg-max of the model's logits of step t - 1; with teacher_forcing 1.0
\* it is gold, with teacher_forcing 0.0 it is the model's own prediction,
\* whatever random.random() returns.
C10_GoldOrOwnPrediction ==
    LaterStep =>
        /\ \/ \E c \in 0..(TargetLen - 1) : gru_in.chars = TargetColumn(c)
           \/ gru_in.chars = OwnPrediction(gru_in.step - 1)
        /\ gru_tf = TFScale =>
             \E c \in 0..(TargetLen - 1) : gru_in.chars = TargetColumn(c)
        /\ gru_tf = 0 => gru_in.chars = OwnPrediction(gru_in.step - 1)

\* C10's case: with teacher_forcing 0.0 and the smallest value of the
\* random source, a step t > 0 took the model's own prediction, which is
\* no gold character of the step
C10_Witness ==
    /\ LaterStep
    /\ gru_tf = 0
    /\ gru_in.coin = 0
    /\ gru_in.chars = OwnPrediction(gru_in.step - 1)
    /\ gru_in.chars # TargetColumn(gru_in.step - 1)

(* Claims about the first input of GRUDecoder.decode *)

\* the state after step 0 of the loop
StepZero == gru_in # NoValue /\ gru_in.step = 0

MaxWords == MaxOf({Len(gru_batch["TOKENS"][i]) : i \in 1..Len(gru_batch["TOKENS"])})

\* position r holds a token of its sentence, not the filling of a shorter one
RealRow(r) ==
    TokOfRow(r, MaxWords) <= Len(gru_batch["TOKENS"][SentOfRow(r, MaxWords)])

TokenOfRow(r) == gru_batch["TOKENS"][SentOfRow(r, MaxWords)][TokOfRow(r, MaxWords)]

\* C11 as stated: at step 0 the input character of every position that
\* holds a token is the first character of that token, never SOS nor PAD.
C11_Original ==
    StepZero =>
        \A r \in 1..NumPos :
            RealRow(r) =>
                /\ gru_in.chars[r] = W2I(CharVocab, TokenOfRow(r)[1])
                /\ gru_in.chars[r] \notin {SOS_ID, PAD_ID}

\* C11 as amended: at step 0 the input character is the start symbol SOS at
\* every position that holds a token and PAD at the filling positions of
\* shorter sentences; it is made from the tokens alone, without the gold
\* lemmas, teacher_forcing or a draw of the random source.
C11_StartSymbolAtStepZero ==
    StepZero =>
        /\ DOMAIN gru_in.chars = 1..NumPos
        /\ \A r \in 1..NumPos :
              gru_in.chars[r] = IF RealRow(r) THEN SOS_ID ELSE PAD_ID
        /\ gru_in.source = "first"
        /\ gru_in.coin = -1
        /\ gru_flips = 0

\* C11's case: step 0 was made for two sentences of different lengths with
\* gold lemmas and teacher forcing switched on
C11_Witness ==
    /\ StepZero
    /\ GoldAvailable
    /\ gru_tf = TFScale
    /\ \E r \in 1..NumPos : ~RealRow(r)
    /\ \E r \in 1..NumPos : RealRow(r) /\ gru_in.chars[r] = SOS_ID

-----------------------------------------------------------------------------
(* GRUDecoder: map_lemma_from_char_idx, map_sentence_chars, postprocess *)

\* self.illegal_chars_output
IllegalCharsOutputNoUnk == {SOS_ID, PAD_ID}

IllegalCharsOutput == {SOS_ID, PAD_ID, UNK_ID}

\* the comprehension of map_lemma_from_char_idx: the symbols of the indices
\* that are not illegal, in order
RECURSIVE LegalChars(_, _)
LegalChars(vocab, char_idxs) ==
    IF char_idxs = <<>> THEN <<>>
    ELSE (IF Head(char_idxs) \notin IllegalCharsOutput
          THEN <<I2W(vocab, Head(char_idxs))>>
          ELSE <<>>)
         \o LegalChars(vocab, Tail(char_idxs))

\* chars.index(sym): the position, counted from 0, of the first sym
IndexOfNext(chars, sym) ==
    CHOOSE k \in 1..Len(chars) :
        chars[k] = sym /\ \A j \in 1..(k - 1) : chars[j] # sym

IndexOf(chars, sym) ==
    (CHOOSE k \in 1..Len(chars) :
        chars[k] = sym /\ \A j \in 1..(k - 1) : chars[j] # sym) - 1

\* GRUDecoder.map_lemma_from_char_idx; a lemma string is the sequence of its
\* characters, "".join(chars) lays the symbols one after the other
MapLemmaFromCharIdxFind(vocab, char_idxs) ==
    LET chars == LegalChars(vocab, char_idxs)
    IN  IF EOS \in Range(chars)
        THEN SubSeq(chars, 1, IndexOf(chars, EOS))
        ELSE SubSeq(chars, 1, Len(chars) - 1)

MapLemmaFromCharIdx(vocab, char_idxs) ==
    LET chars == LegalChars(vocab, char_idxs)
    IN  IF EOS \in Range(chars)
        THEN SubSeq(chars, 1, IndexOf(chars, EOS))
        ELSE chars

\* GRUDecoder.map_sentence_chars: sent[tok_num] raises IndexError when
\* sent_length is beyond the tokens of sent
MapSentenceCharsRaises(sent, sent_length) == sent_length > Len(sent)

MapSentenceCharsAll(vocab, sent, sent_length) ==
    [tok_num \in 1..Len(sent) |-> MapLemmaFromCharIdx(vocab, sent[tok_num])]

MapSentenceChars(vocab, sent, sent_length) ==
    [tok_num \in 1..sent_length |-> MapLemmaFromCharIdx(vocab, sent[tok_num])]

\* batch.argmax(dim=2): (rows, max_chars)
CharPreds(batch) ==
    [r \in 1..Len(batch) |-> [c \in 1..Len(batch[r]) |-> Argmax(batch[r][c])]]

\* char_preds.view(size=(len(lengths), -1, max_chars)) raises RuntimeError
\* unless the rows split evenly over len(lengths) sentences
ViewRaises(rows, lengths) == Len(lengths) = 0 \/ rows % Len(lengths) # 0

\* the view: sentence i holds the rows (i - 1) * per + 1 .. i * per
SentCharPreds(char_preds, n) ==
    LET per == Len(char_preds) \div n
    IN  [i \in 1..n |-> [j \in 1..per |-> char_preds[(i - 1) * per + j]]]

\* GRUDecoder.postprocess
GRUPostprocessValue(vocab, batch, lengths) ==
    IF ViewRaises(Len(batch), lengths)
    THEN [status |-> "RuntimeError"]
    ELSE LET as_list == SentCharPreds(CharPreds(batch), Len(lengths))
         IN  IF \E i \in 1..Len(lengths) :
                    MapSentenceCharsRaises(as_list[i], lengths[i])
             THEN [status |-> "IndexError"]
             ELSE [status |-> "returned",
                   value  |-> [i \in 1..Len(lengths) |->
                                 MapSentenceChars(vocab, as_list[i], lengths[i])]]

\* The inputs of postprocess.  One position whose characters are any
\* indices of the vocabulary:
CharIdxs == 0..(Len(CharVocab) - 1)

SingleLogits ==
    UNION {{<<[c \in 1..t |-> OneHot(Len(CharVocab), idx[c])]>> :
                idx \in [1..t -> CharIdxs]} : t \in 1..MaxChars}

\* and tensors of several positions, each "a" followed by EOS, or "b"
\* followed by a tie between "a" and "b" and no EOS
RowA == <<OneHot(Len(CharVocab), 4), OneHot(Len(CharVocab), EOS_ID)>>
RowBA == <<OneHot(Len(CharVocab), 5), <<0, 0, 0, 0, 1, 1>>>>
LemmaRows == {RowA, RowBA}

\* lengths as the data pipeline guarantees them for a batch of b sentences
\* of at most s tokens
ShapeLengths(b, s) == [1..b -> 0..s]

\* lengths of a broken pipeline: too few, too many, or one beyond max_len
BrokenLengths(b, s) ==
    UNION {{SubSeq(l, 1, Len(l) - 1),
            Append(l, s),
            [l EXCEPT ![1] = s + 1]} : l \in ShapeLengths(b, s)}

LengthsFit(shape, l) ==
    /\ Len(l) = shape[1]
    /\ \A i \in 1..Len(l) : l[i] \in 0..shape[2]

\* the gold lemma of the scenario: four characters, then EOS
ScenarioWord == [token |-> <<"b", "a", "a", "b">>, lemma |-> <<"b", "a", "a", "b">>]

\* the logits whose arg-max is the gold target index at every step
GoldLogits(target) ==
    [r \in 1..Len(target) |->
        [c \in 1..Len(target[r]) |-> OneHot(Len(CharVocab), target[r][c])]]

LemmaInit ==
    /\ \/ /\ lm_shape = <<1, 1>>
          /\ lm_logits \in SingleLogits
          /\ lm_lengths \in ShapeLengths(1, 1) \cup BrokenLengths(1, 1)
          /\ lm_gold = NoValue
       \/ \E b \in 1..MaxBatch, s \in 1..MaxSeq :
            /\ lm_shape = <<b, s>>
            /\ lm_logits \in [1..(b * s) -> LemmaRows]
            /\ lm_lengths \in ShapeLengths(b, s) \cup BrokenLengths(b, s)
            /\ lm_gold = NoValue
       \/ \E ss \in SentenceBatches \cup {<< <<ScenarioWord>> >>} :
            LET batch == GRUAddTargets(GRUBatch(ss, TRUE))
            IN  /\ lm_shape = <<Len(ss), NumRows(batch) \div Len(ss)>>
                /\ lm_logits = GoldLogits(batch["TARGET_LEMMAS"])
                /\ lm_lengths = [i \in 1..Len(ss) |-> Len(ss[i])]
                /\ lm_gold = [status |-> "gold", lemmas |-> batch["LEMMAS"]]
    /\ lm_result = NoValue

GRUPostprocess ==
    /\ lm_result = NoValue
    /\ lm_result' = GRUPostprocessValue(CharVocab, lm_logits, lm_lengths)
    /\ UNCHANGED <<lm_logits, lm_shape, lm_lengths, lm_gold>>
    /\ UNCHANGED <<tgVars, encVars, ablVars, gruVars, pkVars>>

LemmaNext == GRUPostprocess

InitLemma == LemmaInit /\ TaggerIdle /\ EncoderIdle /\ ABLIdle /\ GRUIdle /\ PackIdle

SpecLemma == InitLemma /\ [][LemmaNext]_vars

(* Claims about GRUDecoder.postprocess *)

LemmaReturned == lm_result.status = "returned"

\* the index the decoder generated at character c of position r
GeneratedIdx(r, c) ==
    (CHOOSE k \in 1..Len(CharVocab) : IsFirstMax(lm_logits[r][c], k)) - 1

GeneratedIdxs(r) == [c \in 1..Len(lm_logits[r]) |-> GeneratedIdx(r, c)]

\* the row of the logits that holds token j of sentence i
RowOf(i, j) == (i - 1) * lm_shape[2] + j

\* the characters of idxs before the first EOS_ID
RECURSIVE BeforeEos(_)
BeforeEos(idxs) ==
    IF idxs = <<>> \/ Head(idxs) = EOS_ID THEN <<>>
    ELSE <<Head(idxs)>> \o BeforeEos(Tail(idxs))

\* the symbols of the indices of idxs that are no PAD, UNK or SOS
RECURSIVE SymbolsOf(_)
SymbolsOf(idxs) ==
    IF idxs = <<>> THEN <<>>
    ELSE (IF Head(idxs) \in {PAD_ID, UNK_ID, SOS_ID} THEN <<>>
          ELSE <<CharVocab[Head(idxs) + 1]>>)
         \o SymbolsOf(Tail(idxs))

\* C12: every lemma returned is the symbols, in order, of the generated
\* indices that precede the first EOS and are not PAD, UNK or SOS; it holds
\* no EOS symbol.
C12_LemmaBeforeFirstEos ==
    LemmaReturned =>
        \A i \in 1..Len(lm_result.value) :
            \A j \in 1..Len(lm_result.value[i]) :
                LET idxs == GeneratedIdxs((i - 1) * (Len(lm_logits) \div Len(lm_lengths)) + j)
                IN  /\ lm_result.value[i][j] = SymbolsOf(BeforeEos(idxs))
                    /\ EOS \notin Range(lm_result.value[i][j])
                    /\ Len(lm_result.value[i][j]) <= Len(BeforeEos(idxs))

\* C12's case: UNK, "a", EOS, "b" were generated: the UNK is dropped and the
\* lemma is cut at the EOS, before the "b"
C12_Witness ==
    /\ LemmaReturned
    /\ lm_shape = <<1, 1>>
    /\ lm_lengths = <<1>>
    /\ GeneratedIdxs(1) = <<UNK_ID, 4, EOS_ID, 5>>
    /\ lm_result.value = << << <<"a">> >> >>

\* no EOS among the characters generated at position r
NoEosAt(r) == \A c \in 1..Len(lm_logits[r]) : GeneratedIdx(r, c) # EOS_ID

\* the row the view of postprocess gives token j of sentence i
ViewRow(i, j) == (i - 1) * (Len(lm_logits) \div Len(lm_lengths)) + j

\* C13 as stated: where no EOS was generated the lemma is the raw character
\* sequence, the symbol of every generated index.
C13_Original ==
    LemmaReturned =>
        \A i \in 1..Len(lm_result.value) :
            \A j \in 1..Len(lm_result.value[i]) :
                NoEosAt(ViewRow(i, j)) =>
                    lm_result.value[i][j] =
                        [c \in 1..Len(lm_logits[ViewRow(i, j)]) |->
                            CharVocab[GeneratedIdx(ViewRow(i, j), c) + 1]]

\* C13 as amended: where no EOS was generated postprocess does not fail and
\* the lemma is, cut nowhere, the symbols of all generated indices that are
\* not PAD, UNK or SOS.
C13_NoEosKeepsLegalChars ==
    /\ (lm_result # NoValue /\ LengthsFit(lm_shape, lm_lengths)) => LemmaReturned
    /\ LemmaReturned =>
        \A i \in 1..Len(lm_result.value) :
            \A j \in 1..Len(lm_result.value[i]) :
                NoEosAt(ViewRow(i, j)) =>
                    lm_result.value[i][j] = SymbolsOf(GeneratedIdxs(ViewRow(i, j)))

\* C13's case: "b", PAD, "a", "a" were generated, no EOS: the lemma is "baa"
C13_Witness ==
    /\ LemmaReturned
    /\ lm_shape = <<1, 1>>
    /\ lm_lengths = <<1>>
    /\ NoEosAt(1)
    /\ GeneratedIdxs(1) = <<5, PAD_ID, 4, 4>>
    /\ lm_result.value = << << <<"b", "a", "a">> >> >>

\* the lemma of the characters generated at row r
LemmaOfRow(r) == SymbolsOf(BeforeEos(GeneratedIdxs(r)))

\* C14: with len(lengths) == batch and every lengths[i] <= max_len,
\* postprocess returns len(lengths) sentences in input order, sentence i
\* holding exactly lengths[i] lemmas, the j-th decoded from position (i, j):
\* a padded position gives no lemma.
C14_LemmasRespectLengths ==
    (lm_result # NoValue /\ LengthsFit(lm_shape, lm_lengths)) =>
        /\ LemmaReturned
        /\ Len(lm_result.value) = Len(lm_lengths)
        /\ \A i \in 1..Len(lm_lengths) :
             /\ Len(lm_result.value[i]) = lm_lengths[i]
             /\ \A j \in 1..lm_lengths[i] :
                  lm_result.value[i][j] = LemmaOfRow(RowOf(i, j))

\* C14's case: two sentences of two positions, the first with a padded
\* position whose characters differ from those of the position after it
C14_Witness ==
    /\ LemmaReturned
    /\ lm_shape = <<2, 2>>
    /\ lm_lengths = <<1, 2>>
    /\ LemmaOfRow(RowOf(1, 2)) # LemmaOfRow(RowOf(2, 1))
    /\ LemmaOfRow(RowOf(1, 1)) # LemmaOfRow(RowOf(2, 1))
    /\ Len(lm_result.value[1]) = 1
    /\ Len(lm_result.value[2]) = 2

(* Claims about both postprocess methods *)

\* C15: whenever lengths does not fit the logits tensor (a lengths[i]
\* beyond the tensor's second dimension, or len(lengths) different from the
\* number of sentences), Tagger.postprocess and GRUDecoder.postprocess raise
\* an error and return no result.
C15_MismatchRaises ==
    /\ (TaggerCalled /\ ~Consistent(tg_logits, tg_lengths)) =>
          tg_result.status # "returned"
    /\ (lm_result # NoValue /\ ~LengthsFit(lm_shape, lm_lengths)) =>
          lm_result.status # "returned"

(* Claims about the round trip of a gold lemma *)

\* the logits follow gold lemmas: their arg-max is the target index at every step
FollowsGold == lm_gold.status = "gold"

\* C16: when the arg-max of the logits equals the gold target index at
\* every step, postprocess returns for every token exactly its gold lemma;
\* the lemma of four characters comes back as it is.
C16_LemmaRoundTrip ==
    (lm_result # NoValue /\ FollowsGold) =>
        /\ LemmaReturned
        /\ lm_result.value = lm_gold.lemmas
        /\ lm_gold.lemmas = << <<ScenarioWord.lemma>> >> =>
              lm_result.value = << << <<"b", "a", "a", "b">> >> >>

\* C16's case: the lemma of four characters and EOS was generated and
\* postprocessed
C16_Witness ==
    /\ LemmaReturned
    /\ FollowsGold
    /\ lm_gold.lemmas = << <<ScenarioWord.lemma>> >>
    /\ GeneratedIdxs(1) = <<5, 4, 4, 5, EOS_ID>>
    /\ lm_result.value[1][1] = ScenarioWord.lemma

(* Claims about add_targets *)

\* the decoder whose forward is the next step of ABLTagger.forward
DecoderRuns == abl_pc = "decoding" /\ abl_next <= Len(abl_decoders)

RunningDecoder == ModuleDict(abl_decoders)[abl_next]

\* the derived key of a decoder and the gold key it is derived from
OwnTargetKey(d) == IF d.kind = "Tagger" THEN "TARGET_FULL_TAGS" ELSE "TARGET_LEMMAS"

OwnGoldKey(d) == IF d.kind = "Tagger" THEN "FULL_TAGS" ELSE "LEMMAS"

\* C17: the forward of a decoder sets the decoder's own target key if and
\* only if its gold key is in the batch, and leaves every other entry of
\* the batch as it was; without the gold key the batch is unchanged.
C17_AddTargetsFrame ==
    [][DecoderRuns =>
        LET d == RunningDecoder
        IN  /\ DOMAIN abl_batch' \ {OwnTargetKey(d)} = DOMAIN abl_batch \ {OwnTargetKey(d)}
            /\ \A k \in DOMAIN abl_batch \ {OwnTargetKey(d)} : abl_batch'[k] = abl_batch[k]
            /\ (OwnGoldKey(d) \in DOMAIN abl_batch) =>
                  /\ OwnTargetKey(d) \in DOMAIN abl_batch'
                  /\ abl_batch'[OwnTargetKey(d)][1] = OwnTargetKey(d)
                  /\ abl_batch'[OwnTargetKey(d)][2] = d.name
                  /\ <<d.name, "batch", OwnTargetKey(d)>> \in abl_writes'
            /\ (OwnGoldKey(d) \notin DOMAIN abl_batch) =>
                  /\ abl_batch' = abl_batch
                  /\ \A w \in abl_writes' \ abl_writes : w[2] # "batch"
    ]_vars

\* C17's case: a Tagger has set its target key in a batch that holds gold
\* tags and gold lemmas and the target of a GRUDecoder that ran before it
C17_Witness ==
    /\ abl_pc = "decoding"
    /\ abl_next = 3
    /\ ModuleDict(abl_decoders)[1].kind = "GRUDecoder"
    /\ ModuleDict(abl_decoders)[2].kind = "Tagger"
    /\ {"FULL_TAGS", "LEMMAS", "TARGET_LEMMAS", "TARGET_FULL_TAGS"} \subseteq DOMAIN abl_batch
    /\ abl_batch["TARGET_FULL_TAGS"][2] = ModuleDict(abl_decoders)[2].name
    /\ abl_batch["TARGET_LEMMAS"][2] = ModuleDict(abl_decoders)[1].name

(* Claims about repeated calls of Tagger.postprocess *)

ForwardDone == enc_out.status # "none"

MixedEmbeddings ==
    HasEmb(enc_args.embeddings, TRUE) /\ HasEmb(enc_args.embeddings, FALSE)

\* C19: with embeddings routed to the recurrent layer, of a hidden dim
\* above 0, and embeddings not routed to it, forward completes without
\* error and returns the features of the not routed embeddings followed by
\* the recurrent layer's output.
C19_MixedForwardConcatenates ==
    (ForwardDone /\ MixedEmbeddings /\ enc_args.main_lstm_dim > 0) =>
        /\ enc_out.status = "returned"
        /\ enc_out.value.kind = "tensor"
        /\ enc_out.value.feats =
              CatEmbs(enc_args.embeddings, FALSE) \o BilstmFeats(enc_args)

(* Claims about the context of GRUDecoder.decode *)

Decoding == gru_pc \in {"decoding", "returned"}

\* C20: the hidden state of every position starts from the position's
\* context vector, the recurrent input of every step is the embedding of
\* the step's input character followed by that context vector, and a step
\* leaves the context, the batch and teacher_forcing alone: it changes the
\* hidden state and the predictions.
C20_ContextAtEveryStep ==
    /\ [](Decoding =>
            /\ DOMAIN gru_context = 1..NumPos
            /\ \A p \in 1..NumPos :
                 /\ gru_context[p] = <<"context", p>>
                 /\ gru_hidden[p].init = gru_context[p]
                 /\ gru_hidden[p].steps = Len(StepsMade)
            /\ gru_in # NoValue =>
                 \A p \in 1..NumPos :
                    gru_in.rnn_in[p] = <<<<"emb", gru_in.chars[p]>>, gru_context[p]>>)
    /\ [][gru_pc = "decoding" =>
            /\ gru_context' = gru_context
            /\ gru_batch' = gru_batch
            /\ gru_tf' = gru_tf
            /\ gru_pc' = "decoding" =>
                 /\ Len(gru_predictions'.steps) = Len(StepsMade) + 1
                 /\ gru_hidden' # gru_hidden
       ]_vars

\* C20's case: three steps were made for two positions, the last one on the
\* model's own prediction
C20_Witness ==
    /\ gru_pc = "returned"
    /\ GoldAvailable
    /\ NumPos = 2
    /\ gru_in # NoValue
    /\ gru_in.step = 2
    /\ gru_in.source = "own"
    /\ gru_hidden[2] = [init |-> <<"context", 2>>, steps |-> 3]

(* Claims about GRUDecoder.forward without gold lemmas *)

NoGoldLemmas == "LEMMAS" \notin DOMAIN gru_batch /\ "TARGET_LEMMAS" \notin DOMAIN gru_batch

\* C21: without LEMMAS and TARGET_LEMMAS in the batch, forward makes no
\* generation step, draws no random number and returns None; with LEMMAS in
\* the batch the targets are set in the same forward before decoding, so
\* that steps are made and a tensor of logits is returned.
C21_NoGoldNoSteps ==
    Decoding =>
        /\ NoGoldLemmas =>
              /\ gru_pc = "returned"
              /\ gru_predictions = None
              /\ gru_in = NoValue
              /\ gru_flips = 0
              /\ \A p \in 1..NumPos : gru_hidden[p].steps = 0
        /\ "LEMMAS" \in DOMAIN gru_batch =>
              /\ "TARGET_LEMMAS" \in DOMAIN gru_batch
              /\ TargetLen >= 1
              /\ gru_pc = "returned" =>
                    /\ gru_predictions.kind = "tensor"
                    /\ Len(gru_predictions.steps) >= 1

\* C21's case: forward has returned None for two sentences without gold
\* lemmas, with teacher forcing switched on
C21_Witness ==
    /\ gru_pc = "returned"
    /\ NoGoldLemmas
    /\ gru_predictions = None
    /\ Len(gru_batch["TOKENS"]) = 2
    /\ gru_tf = TFScale

(* Claims about the teacher forcing coin *)

\* C23: random.random() is called once in every step t > 0 and not in step
\* 0, and its outcome holds for the whole batch: in one step every position
\* is fed its gold character or every position its own prediction of the
\* step before.
C23_OneCoinPerStep ==
    (Decoding /\ gru_in # NoValue) =>
        /\ gru_flips = gru_in.step
        /\ gru_in.step = 0 => gru_in.coin = -1
        /\ gru_in.step > 0 =>
              /\ gru_in.coin \in Coins
              /\ \/ /\ gru_in.source = "gold"
                    /\ \A p \in 1..NumPos :
                          gru_in.chars[p] = TargetColumn(gru_in.step - 1)[p]
                 \/ /\ gru_in.source = "own"
                    /\ \A p \in 1..NumPos :
                          gru_in.chars[p] = OwnPrediction(gru_in.step - 1)[p]

\* C23's case: in step 2 of a batch of several positions the coin fell for
\* teacher forcing, and at every position the gold character differs from
\* the model's own prediction
C23_Witness ==
    /\ Decoding
    /\ gru_in # NoValue
    /\ gru_in.step = 2
    /\ gru_flips = 2
    /\ NumPos >= 2
    /\ gru_tf \in 1..(TFScale - 1)
    /\ gru_in.source = "gold"
    /\ \A p \in 1..NumPos :
          /\ gru_in.chars[p] = TargetColumn(1)[p]
          /\ TargetColumn(1)[p] # OwnPrediction(1)[p]

-----------------------------------------------------------------------------
(* pack_sequence, unpack_sequence *)

\* The feature vectors of a timestep; the padding is ZeroVec
ZeroVec == <<0, 0>>
FeatVecs == {ZeroVec, <<1, 0>>, <<-1, 1>>}

RECURSIVE SumSeq(_)
SumSeq(s) == IF s = <<>> THEN 0 ELSE Head(s) + SumSeq(Tail(s))

\* torch.sum(torch.pow(padded_sequence, 2), dim=2): (b, s)
SquaredNorms(x) ==
    [i \in 1..Len(x) |->
        [t \in 1..Len(x[i]) |->
            SumSeq([k \in 1..Len(x[i][t]) |-> x[i][t][k] * x[i][t][k]])]]

\* torch.sum(lengths != 0.0, dim=1): (b)
NonZeroCounts(norms) ==
    [i \in 1..Len(norms) |->
        Cardinality({t \in 1..Len(norms[i]) : norms[i][t] # 0})]

\* pack_padded_sequence raises RuntimeError unless every length is above 0
PackPaddedRaises(lengths) == \E i \in 1..Len(lengths) : lengths[i] <= 0

\* enforce_sorted=False: the sequences in the order of falling length
SortedIndices(lengths) ==
    CHOOSE perm \in [1..Len(lengths) -> 1..Len(lengths)] :
        /\ \A k, l \in 1..Len(lengths) : perm[k] = perm[l] => k = l
        /\ \A k, l \in 1..Len(lengths) :
              k < l => \/ lengths[perm[k]] > lengths[perm[l]]
                       \/ /\ lengths[perm[k]] = lengths[perm[l]]
                          /\ perm[k] < perm[l]

RECURSIVE Concat(_)
Concat(seqs) == IF seqs = <<>> THEN <<>> ELSE Head(seqs) \o Concat(Tail(seqs))

\* the sequences, in sorted order, that have a timestep t
RECURSIVE StepRows(_, _, _, _)
StepRows(x, lengths, sorted, t) ==
    IF sorted = <<>> THEN <<>>
    ELSE (IF lengths[Head(sorted)] >= t THEN <<x[Head(sorted)][t]>> ELSE <<>>)
         \o StepRows(x, lengths, Tail(sorted), t)

\* pack_padded_sequence(x, lengths, batch_first=True, enforce_sorted=False):
\* data holds timestep after timestep the vectors of the sequences that
\* reach it, batch_sizes how many those are
PackPaddedSequence(x, lengths) ==
    LET sorted == SortedIndices(lengths)
        max_len == MaxOf(Range(lengths))
    IN  [data |-> Concat([t \in 1..max_len |-> StepRows(x, lengths, sorted, t)]),
         batch_sizes |-> [t \in 1..max_len |->
                            Cardinality({i \in 1..Len(lengths) : lengths[i] >= t})],
         sorted_indices |-> sorted]

\* pack_sequence: the PackedSequence and the lengths, or the error
PackSequenceValue(padded_sequence) ==
    LET lengths == NonZeroCounts(SquaredNorms(padded_sequence))
    IN  IF PackPaddedRaises(lengths)
        THEN [status |-> "RuntimeError"]
        ELSE [status |-> "returned",
              packed |-> PackPaddedSequence(padded_sequence, lengths),
              lengths |-> lengths]

\* pad_packed_sequence(packed, batch_first=True)[0]: (b, the longest
\* length, f), zeros behind the end of a sequence, in the original order
PadPackedSequence(packed) ==
    LET max_len == Len(packed.batch_sizes)
        b == packed.batch_sizes[1]
        zero == [k \in 1..Len(packed.data[1]) |-> 0]
        Offset(t) == SumSeq(SubSeq(packed.batch_sizes, 1, t - 1))
        Row(k) == [t \in 1..max_len |->
                      IF k <= packed.batch_sizes[t]
                      THEN packed.data[Offset(t) + k] ELSE zero]
    IN  [i \in 1..b |->
            Row(CHOOSE k \in 1..b : packed.sorted_indices[k] = i)]

\* unpack_sequence
UnpackSequenceValue(packed_sequence) == PadPackedSequence(packed_sequence)

\* The padded sequences: real[i] timesteps of any vectors, then padding
PaddedSequences(b, s, real) ==
    {x \in [1..b -> [1..s -> FeatVecs]] :
        \A i \in 1..b : \A t \in 1..s : t > real[i] => x[i][t] = ZeroVec}

PackInit ==
    /\ \E b \in 1..MaxBatch, s \in 1..MaxSeq :
          /\ pk_real \in [1..b -> 0..s]
          /\ pk_x \in PaddedSequences(b, s, pk_real)
    /\ pk_pc = "args"
    /\ pk_packed = NoValue
    /\ pk_lengths = NoValue
    /\ pk_out = NoValue

PackSequence ==
    /\ pk_pc = "args"
    /\ LET res == PackSequenceValue(pk_x)
       IN  IF res.status = "returned"
           THEN /\ pk_pc' = "packed"
                /\ pk_packed' = res.packed
                /\ pk_lengths' = [status |-> "set", value |-> res.lengths]
           ELSE /\ pk_pc' = "raised"
                /\ UNCHANGED <<pk_packed, pk_lengths>>
    /\ UNCHANGED <<pk_x, pk_real, pk_out>>
    /\ UNCHANGED <<tgVars, encVars, ablVars, gruVars, lmVars>>

UnpackSequence ==
    /\ pk_pc = "packed"
    /\ pk_out' = [status |-> "set", value |-> UnpackSequenceValue(pk_packed)]
    /\ pk_pc' = "unpacked"
    /\ UNCHANGED <<pk_x, pk_real, pk_packed, pk_lengths>>
    /\ UNCHANGED <<tgVars, encVars, ablVars, gruVars, lmVars>>

PackNext == PackSequence \/ UnpackSequence

InitPack ==
    PackInit /\ TaggerIdle /\ EncoderIdle /\ ABLIdle /\ GRUIdle /\ LemmaIdle

SpecPack == InitPack /\ [][PackNext]_vars

(* Claims about pack_sequence and unpack_sequence *)

\* every sequence has a real timestep and no real timestep is ZeroVec
RealTimestepsNonZero ==
    \A i \in 1..Len(pk_x) :
        /\ pk_real[i] >= 1
        /\ \A t \in 1..pk_real[i] : pk_x[i][t] # ZeroVec

\* C22: for a padded sequence whose padding is zero vectors behind the real
\* timesteps, pack_sequence returns the numbers of real timesteps as lengths
\* and unpack_sequence gives the padded sequence back.
C22_UnpackInvertsPack ==
    (pk_pc \in {"raised", "unpacked"} /\ RealTimestepsNonZero) =>
        /\ pk_pc = "unpacked"
        /\ pk_lengths.value = pk_real
        /\ pk_out.value = pk_x

=============================================================================
